---- MODULE Spec2Model ----
(***************************************************************************)
(* Model of the POS back office of gallo_tlp: the catalog (groups, lines,  *)
(* articles, price lists), the orders with their items                     *)
(* (pos_project/core/models.py) and the article-creation serializer        *)
(* (pos_project/api/serializers.py).                                       *)
(*                                                                         *)
(* The persistent store is one set of rows per table.  Money is counted in *)
(* whole units of the smallest amount (DecimalField with 2 places), so     *)
(* cantidad * precio_unitario and the sums are exact.                      *)
(***************************************************************************)
EXTENDS Integers, FiniteSets, Sequences, TLC

\* ------------------------------------------------------------------ bounds
\* Spec: orders and items created.
MaxOrdenes == 1
MaxItems == 2
\* SpecCatalog: articles created.
MaxArticulos == 2
\* SpecRefs: articles, orders and items created.
MaxArticulosRefs == 1
MaxOrdenesRefs == 2
MaxItemsRefs == 2
\* SpecConc: requests handled concurrently.
MaxReqs == 2

ReqIds == 1..MaxReqs

\* ------------------------------------------------------- program constants
MinLenCodigo == 4
MinLenDescripcion == 5
MaxLenDescripcion == 150

\* EstadoEntidades (ACTIVO is the default of every estado column) and
\* EstadoOrden (PENDIENTE is the default of an order).
EstadoEntidades == {"ACTIVO", "INACTIVO"}
EstadoOrden == {"PENDIENTE", "PROCESADA"}

\* Inputs of an item save: cantidad is positive, precio_unitario 0 means
\* "not given".
Cantidades == {1, 2}
Precios == {0, 2}

\* Inputs of an article-creation request; the primary keys of groups and
\* lines are given by the client.
GrupoIds == {1, 2, 3}
LineaIds == {1, 2, 3}
Codigos == {"A001", "A002", "A1"}
Descripciones == {"Leche entera", "Pan"}
Stocks == {-1, 0}

VARIABLES
    grupos,         \* table grupos_articulos: set of grupo_id
    lineas,         \* table lineas_articulos: rows [linea_id, grupo]
    articulos,      \* table articulos: rows [articulo_id, codigo_articulo, grupo, linea]
    lista_precios,  \* table lista_precios: rows [articulo, precio_1]
    ordenes,        \* table ordenes_compra_cliente
    items,          \* table items_ordenes_compra_cliente
    nextArticulo,   \* next fresh articulo_id (uuid4)
    nextNro,        \* next nro_pedido (BigAutoField)
    nextItem,       \* next fresh item_id (uuid4)
    reqs,           \* the requests in flight (concurrent specification)
    resp            \* response of the last request handled in sequence

vars == <<grupos, lineas, articulos, lista_precios, ordenes, items,
          nextArticulo, nextNro, nextItem, reqs, resp>>

\* ------------------------------------------------------------ the ORM rows
RECURSIVE SumTotalItem(_)
SumTotalItem(S) ==
    IF S = {} THEN 0
    ELSE LET x == CHOOSE y \in S : TRUE
         IN  x.total_item + SumTotalItem(S \ {x})

\* orden.items_orden_compra.all(): the items whose pedido is the order.
items_orden_compra(nro, its) == {i \in its : i.pedido = nro}

\* OrdenCompraCliente.actualizar_total, lines 147-148: the in-memory order
\* after the sum over the stored items has been assigned to importe.
actualizar_total_activos(orden, its) ==
    [orden EXCEPT !.importe =
        SumTotalItem({i \in items_orden_compra(orden.nro_pedido, its) :
                          i.estado = "ACTIVO"})]

actualizar_total(orden, its) ==
    [orden EXCEPT !.importe =
        SumTotalItem(items_orden_compra(orden.nro_pedido, its))]

\* Model.save() of an order: the whole row is written from the instance.
SaveOrden(orden, ords) ==
    {o \in ords : o.nro_pedido # orden.nro_pedido} \cup {orden}

\* Model.save() of an item (super().save(), line 181).
SaveItemRow(item, its) ==
    {i \in its : i.item_id # item.item_id} \cup {item}

\* The reverse accessor ListaPrecios.articulo installs on Articulo.
RelatedNameListaPrecios == "articulo_lista"

\* Attribute access articulo.<name> for the price list: AttributeError when
\* <name> is not the reverse accessor, DoesNotExist when no row is stored.
ArticuloGetAttr(articulo_id, name, lps) ==
    IF name # RelatedNameListaPrecios
    THEN [exc |-> "AttributeError", precio_1 |-> 0]
    ELSE IF \E lp \in lps : lp.articulo = articulo_id
         THEN [exc |-> "",
               precio_1 |-> (CHOOSE lp \in lps : lp.articulo = articulo_id).precio_1]
         ELSE [exc |-> "DoesNotExist", precio_1 |-> 0]

\* ItemOrdenCompraCliente.save, lines 172-180: total and price fallback.
ItemTotals(inst, lps) ==
    LET t0 == [inst EXCEPT !.total_item = inst.cantidad * inst.precio_unitario]
    IN  IF t0.precio_unitario = 0
        THEN LET lista_precio == ArticuloGetAttr(inst.articulo, "listaprecio", lps)
             IN  IF lista_precio.exc # ""
                 THEN t0
                 ELSE [t0 EXCEPT !.precio_unitario = lista_precio.precio_1,
                                 !.total_item = inst.cantidad * lista_precio.precio_1]
        ELSE t0

OrdenRow(nro, ords) == CHOOSE o \in ords : o.nro_pedido = nro

\* --------------------------------------------------------------- responses
\* What the last request handled in sequence was (op, the order or article
\* it was about, and the data of an article-creation request) and how it
\* ended (ok, or the keys of its errors).
NoData == [codigo_articulo |-> "", descripcion |-> "", stock |-> 0,
           grupo_id |-> 0, linea_id |-> 0, precio_1 |-> 0]
RespOk(op, id) ==
    [op |-> op, id |-> id, ok |-> TRUE, errors |-> {}, data |-> NoData]
RespError(op, id, errors) ==
    [op |-> op, id |-> id, ok |-> FALSE, errors |-> errors, data |-> NoData]

\* ------------------------------------------- ArticuloCreateSerializer, pure
\* validate_codigo_articulo: the code is not stored yet and has 4 characters.
validate_codigo_articulo(value, arts) ==
    IF \E a \in arts : a.codigo_articulo = value THEN {"codigo_articulo"}
    ELSE IF Len(value) < MinLenCodigo THEN {"codigo_articulo"}
    ELSE {}

validate_descripcion(value) ==
    IF Len(value) < MinLenDescripcion THEN {"descripcion"}
    ELSE IF Len(value) > MaxLenDescripcion THEN {"descripcion"}
    ELSE {}

validate_stock(value) == IF value < 0 THEN {"stock"} ELSE {}

\* The field-level validators, run for every field before validate().
FieldErrors(data, arts) ==
    validate_codigo_articulo(data.codigo_articulo, arts)
        \cup validate_descripcion(data.descripcion)
        \cup validate_stock(data.stock)

\* validate(data): the key of the error it raises, {} when it returns data.
validate_sin_pertenencia(data, grps, lins) ==
    IF data.grupo_id \notin grps THEN {"grupo_id"}
    ELSE IF ~ \E l \in lins : l.linea_id = data.linea_id THEN {"linea_id"}
    ELSE {}

validate(data, grps, lins) ==
    IF data.grupo_id \notin grps THEN {"grupo_id"}
    ELSE IF ~ \E l \in lins : l.linea_id = data.linea_id THEN {"linea_id"}
    ELSE IF (CHOOSE l \in lins : l.linea_id = data.linea_id).grupo # data.grupo_id
         THEN {"linea_id"}
    ELSE {}

\* is_valid(): the field errors if any, otherwise the error of validate().
run_validation(data, arts, grps, lins) ==
    IF FieldErrors(data, arts) # {} THEN FieldErrors(data, arts)
    ELSE validate(data, grps, lins)

\* create(), lines 243-261: the article row written by Articulo.objects.create.
ArticuloRow(data, id) ==
    [articulo_id |-> id, codigo_articulo |-> data.codigo_articulo,
     grupo |-> data.grupo_id, linea |-> data.linea_id]

\* create(), lines 264-267: the price-list row.
ListaPreciosRow(data, id) == [articulo |-> id, precio_1 |-> data.precio_1]

\* ------------------------------------------------ on_delete=RESTRICT guards
GrupoRestricted(g, lins, arts) ==
    (\E l \in lins : l.grupo = g) \/ (\E a \in arts : a.grupo = g)

LineaRestrictedNunca(l, arts) == FALSE

LineaRestricted(l, arts) == \E a \in arts : a.linea = l

ArticuloRestricted(a, its) == \E i \in its : i.articulo = a

\* ------------------------------------------------------ requests in flight
NoItem == [item_id |-> 0, pedido |-> 0, articulo |-> 0, cantidad |-> 0,
           precio_unitario |-> 0, total_item |-> 0, estado |-> "ACTIVO"]
NoOrden == [nro_pedido |-> 0, importe |-> 0, estado |-> "PENDIENTE",
            notas |-> "", cliente |-> 0, vendedor |-> 0]
IdleReq == [kind |-> "none", pc |-> "idle", inst |-> NoItem, pedido_obj |-> NoOrden,
            data |-> NoData, errors |-> {}, articulo_id |-> 0]
NoReqs == [r \in ReqIds |-> IdleReq]

\* ---------------------------------------------------- sequential handlers
\* ItemOrdenCompraCliente.save() as one uninterrupted call: totals, the item
\* row, then the parent order's total.
ItemSave(inst) ==
    LET obj == ItemTotals(inst, lista_precios)
        its == SaveItemRow(obj, items)
        pedido == OrdenRow(obj.pedido, ordenes)
    IN  /\ items' = its
        /\ ordenes' = SaveOrden(actualizar_total(pedido, its), ordenes)
        /\ resp' = RespOk("item_save", obj.pedido)

\* save() of a new item of order o.
ItemCreate(o, a, q, p, e) ==
    /\ \E ord \in ordenes : ord.nro_pedido = o
    /\ \E art \in articulos : art.articulo_id = a
    /\ nextItem' = nextItem + 1
    /\ UNCHANGED <<grupos, lineas, articulos, lista_precios, nextArticulo, nextNro, reqs>>
    /\ ItemSave([item_id |-> nextItem, pedido |-> o, articulo |-> a,
                 cantidad |-> q, precio_unitario |-> p, total_item |-> 0,
                 estado |-> e])

\* save() of a stored item after some of its fields were assigned.
ItemUpdate(it, o, q, p, e) ==
    /\ it \in items
    /\ \E ord \in ordenes : ord.nro_pedido = o
    /\ <<o, q, p, e>> # <<it.pedido, it.cantidad, it.precio_unitario, it.estado>>
    /\ UNCHANGED <<grupos, lineas, articulos, lista_precios, nextArticulo, nextNro,
                   nextItem, reqs>>
    /\ ItemSave([it EXCEPT !.pedido = o, !.cantidad = q, !.precio_unitario = p,
                           !.estado = e])

\* save() of a stored item as it was loaded.
ItemResave(it) ==
    /\ it \in items
    /\ UNCHANGED <<grupos, lineas, articulos, lista_precios, nextArticulo, nextNro,
                   nextItem, reqs>>
    /\ ItemSave(it)

\* Model.delete() of an item: the class overrides save() only, so the row
\* is removed and nothing else is written.
ItemDelete(it) ==
    /\ it \in items
    /\ items' = items \ {it}
    /\ resp' = RespOk("item_delete", it.pedido)
    /\ UNCHANGED <<grupos, lineas, articulos, lista_precios, ordenes, nextArticulo,
                   nextNro, nextItem, reqs>>

\* A new order: importe defaults to 0, estado to PENDIENTE.
OrdenCreate ==
    /\ ordenes' = ordenes \cup
          {[nro_pedido |-> nextNro, importe |-> 0, estado |-> "PENDIENTE",
            notas |-> "", cliente |-> 1, vendedor |-> 1]}
    /\ nextNro' = nextNro + 1
    /\ resp' = RespOk("orden_create", nextNro)
    /\ UNCHANGED <<grupos, lineas, articulos, lista_precios, items, nextArticulo,
                   nextItem, reqs>>

\* Model.delete() of an order: pedido is on_delete=CASCADE on the items.
OrdenDelete(o) ==
    /\ o \in ordenes
    /\ ordenes' = ordenes \ {o}
    /\ items' = items \ items_orden_compra(o.nro_pedido, items)
    /\ resp' = RespOk("orden_delete", o.nro_pedido)
    /\ UNCHANGED <<grupos, lineas, articulos, lista_precios, nextArticulo, nextNro,
                   nextItem, reqs>>

\* --------------------------------------------- catalog handlers, sequential
Requests ==
    [codigo_articulo : Codigos, descripcion : Descripciones, stock : Stocks,
     grupo_id : GrupoIds, linea_id : LineaIds, precio_1 : {1}]

\* The requests that pass the checks of length and sign.
RequestsBienFormados ==
    {d \in Requests : validate_descripcion(d.descripcion) = {}
                         /\ validate_stock(d.stock) = {}
                         /\ Len(d.codigo_articulo) >= MinLenCodigo}

\* A new group (grupo_id is the primary key).
GrupoCreate(g) ==
    /\ g \notin grupos
    /\ grupos' = grupos \cup {g}
    /\ resp' = RespOk("grupo_create", g)
    /\ UNCHANGED <<lineas, articulos, lista_precios, ordenes, items, nextArticulo,
                   nextNro, nextItem, reqs>>

\* A new line of a stored group (linea_id is the primary key, grupo a
\* foreign key that is not null).
LineaCreate(l, g) ==
    /\ ~ \E x \in lineas : x.linea_id = l
    /\ g \in grupos
    /\ lineas' = lineas \cup {[linea_id |-> l, grupo |-> g]}
    /\ resp' = RespOk("linea_create", l)
    /\ UNCHANGED <<grupos, articulos, lista_precios, ordenes, items, nextArticulo,
                   nextNro, nextItem, reqs>>

\* Model.delete() of a group: RESTRICT from its lines and its articles.
GrupoDelete(g) ==
    /\ g \in grupos
    /\ IF GrupoRestricted(g, lineas, articulos)
       THEN /\ resp' = RespError("grupo_delete", g, {"RestrictedError"})
            /\ UNCHANGED grupos
       ELSE /\ resp' = RespOk("grupo_delete", g)
            /\ grupos' = grupos \ {g}
    /\ UNCHANGED <<lineas, articulos, lista_precios, ordenes, items, nextArticulo,
                   nextNro, nextItem, reqs>>

\* Model.delete() of a line: RESTRICT from its articles.
LineaDelete(l) ==
    /\ l \in lineas
    /\ IF LineaRestricted(l.linea_id, articulos)
       THEN /\ resp' = RespError("linea_delete", l.linea_id, {"RestrictedError"})
            /\ UNCHANGED lineas
       ELSE /\ resp' = RespOk("linea_delete", l.linea_id)
            /\ lineas' = lineas \ {l}
    /\ UNCHANGED <<grupos, articulos, lista_precios, ordenes, items, nextArticulo,
                   nextNro, nextItem, reqs>>

\* Model.delete() of an article: RESTRICT from the order items, CASCADE to
\* its price list.
ArticuloDelete(a) ==
    /\ a \in articulos
    /\ IF ArticuloRestricted(a.articulo_id, items)
       THEN /\ resp' = RespError("articulo_delete", a.articulo_id, {"RestrictedError"})
            /\ UNCHANGED <<articulos, lista_precios>>
       ELSE /\ resp' = RespOk("articulo_delete", a.articulo_id)
            /\ articulos' = articulos \ {a}
            /\ lista_precios' = {lp \in lista_precios : lp.articulo # a.articulo_id}
    /\ UNCHANGED <<grupos, lineas, ordenes, items, nextArticulo, nextNro, nextItem, reqs>>

\* An article-creation request that is_valid() rejects: create() is not
\* called.
ArticuloCreateRejected(data) ==
    /\ run_validation(data, articulos, grupos, lineas) # {}
    /\ resp' = [RespError("articulo_create", 0,
                          run_validation(data, articulos, grupos, lineas))
                   EXCEPT !.data = data]
    /\ UNCHANGED <<grupos, lineas, articulos, lista_precios, ordenes, items,
                   nextArticulo, nextNro, nextItem, reqs>>

\* A valid request whose create() writes the article and its price list.
ArticuloCreateOk(data) ==
    /\ run_validation(data, articulos, grupos, lineas) = {}
    /\ articulos' = articulos \cup {ArticuloRow(data, nextArticulo)}
    /\ lista_precios' = lista_precios \cup {ListaPreciosRow(data, nextArticulo)}
    /\ nextArticulo' = nextArticulo + 1
    /\ resp' = [RespOk("articulo_create", nextArticulo) EXCEPT !.data = data]
    /\ UNCHANGED <<grupos, lineas, ordenes, items, nextNro, nextItem, reqs>>

\* A valid request whose create() writes the article and then fails in
\* ListaPrecios.objects.create (the insert gives no value to precio_2 ..
\* precio_costo, which are NOT NULL): nothing undoes the first write.
ArticuloCreateListaFails(data) ==
    /\ run_validation(data, articulos, grupos, lineas) = {}
    /\ articulos' = articulos \cup {ArticuloRow(data, nextArticulo)}
    /\ nextArticulo' = nextArticulo + 1
    /\ resp' = [RespError("articulo_create", nextArticulo, {"IntegrityError"})
                   EXCEPT !.data = data]
    /\ UNCHANGED <<grupos, lineas, lista_precios, ordenes, items, nextNro, nextItem, reqs>>

\* ------------------------------------------- Spec: orders, one call at a time
\* A catalog with one article, which has a price list.
Init ==
    /\ grupos = {1}
    /\ lineas = {[linea_id |-> 1, grupo |-> 1]}
    /\ articulos = {[articulo_id |-> 1, codigo_articulo |-> "A001", grupo |-> 1, linea |-> 1]}
    /\ lista_precios = {[articulo |-> 1, precio_1 |-> 1]}
    /\ ordenes = {}
    /\ items = {}
    /\ nextArticulo = 2
    /\ nextNro = 1
    /\ nextItem = 1
    /\ reqs = NoReqs
    /\ resp = RespOk("none", 0)

Next ==
    \/ \E ord \in ordenes, art \in articulos, q \in Cantidades, p \in Precios,
          e \in EstadoEntidades :
          nextItem <= MaxItems /\ ItemCreate(ord.nro_pedido, art.articulo_id, q, p, e)
    \/ \E it \in items, ord \in ordenes, q \in Cantidades, p \in Precios,
          e \in EstadoEntidades : ItemUpdate(it, ord.nro_pedido, q, p, e)
    \/ \E it \in items : ItemResave(it)
    \/ \E it \in items : ItemDelete(it)
    \/ nextNro <= MaxOrdenes /\ OrdenCreate
    \/ \E o \in ordenes : OrdenDelete(o)

Spec == Init /\ [][Next]_vars

\* ------------------------------------------------------------------ claims
ImporteIsSum(nro) ==
    \A ord \in ordenes :
        ord.nro_pedido = nro =>
            ord.importe = SumTotalItem(items_orden_compra(nro, items))

\* C1: in a sequential execution, after every save() of an item (created or
\* updated) the order the item belongs to is stored with importe equal to the
\* sum of total_item over all the items it owns, whatever their estado.
C1_ImporteAfterSave ==
    resp.op = "item_save" =>
        /\ \E ord \in ordenes : ord.nro_pedido = resp.id
        /\ ImporteIsSum(resp.id)

\* C1 witness: right after a save an order owns two items with positive
\* totals, one of them INACTIVO, and its importe is the sum of both.
C1_Witness ==
    /\ resp.op = "item_save"
    /\ \E ord \in ordenes :
        LET own == items_orden_compra(ord.nro_pedido, items)
        IN  /\ ord.nro_pedido = resp.id
            /\ Cardinality(own) >= 2
            /\ \E i \in own : i.estado = "INACTIVO" /\ i.total_item > 0
            /\ \E i \in own : i.estado = "ACTIVO" /\ i.total_item > 0
            /\ ord.importe = SumTotalItem(own)

\* C2: after any completed item mutation (create, update or delete) every
\* order is stored with importe equal to the sum of total_item over the
\* items it owns.
C2_ImporteAfterAnyItemMutation ==
    resp.op \in {"item_save", "item_delete"} =>
        \A ord \in ordenes : ImporteIsSum(ord.nro_pedido)

\* C4: saving an item with precio_unitario 0 for an article that has a price
\* list stores precio_unitario = precio_1 and total_item = cantidad * precio_1,
\* and the order's importe is the sum that includes it.
C4_PriceFallback ==
    [][\A ord \in ordenes, lp \in lista_precios, q \in Cantidades,
          e \in EstadoEntidades :
          ItemCreate(ord.nro_pedido, lp.articulo, q, 0, e)
          => \E i \in items' :
                /\ i.item_id = nextItem
                /\ i.precio_unitario = lp.precio_1
                /\ i.total_item = q * lp.precio_1
                /\ ImporteIsSum(ord.nro_pedido)']_vars

\* C8: saving a stored item again, unchanged, leaves its precio_unitario and
\* total_item and the importe of its order as they were.
C8_ResaveIdempotent ==
    [][\A it \in items :
          ItemResave(it) => /\ it \in items'
                            /\ \A ord \in ordenes :
                                  ord.nro_pedido = it.pedido => ord \in ordenes']_vars

\* -------------------------------- SpecCatalog: article-creation requests,
\* one at a time, against two groups with one line each (group 3 and line 3
\* are not stored).
InitCatalog ==
    /\ grupos = {1, 2}
    /\ lineas = {[linea_id |-> 1, grupo |-> 1], [linea_id |-> 2, grupo |-> 2]}
    /\ articulos = {}
    /\ lista_precios = {}
    /\ ordenes = {}
    /\ items = {}
    /\ nextArticulo = 1
    /\ nextNro = 1
    /\ nextItem = 1
    /\ reqs = NoReqs
    /\ resp = RespOk("none", 0)

NextCatalog ==
    \/ \E data \in Requests : ArticuloCreateRejected(data)
    \/ \E data \in Requests : nextArticulo <= MaxArticulos /\ ArticuloCreateOk(data)
    \/ \E data \in Requests : nextArticulo <= MaxArticulos /\ ArticuloCreateListaFails(data)
    \/ \E a \in articulos : ArticuloDelete(a)

SpecCatalog == InitCatalog /\ [][NextCatalog]_vars

\* C5: an article created by ArticuloCreateSerializer.create is stored if and
\* only if its price list row is, and a creation that fails stores nothing.
C5_ArticuloConListaPrecios ==
    /\ \A a \in articulos : \E lp \in lista_precios : lp.articulo = a.articulo_id
    /\ \A lp \in lista_precios : \E a \in articulos : a.articulo_id = lp.articulo
    /\ (resp.op = "articulo_create" /\ ~resp.ok) =>
          ~ \E a \in articulos : a.articulo_id = resp.id

GrupoExiste(data) == data.grupo_id \in grupos
LineaExiste(data) == \E l \in lineas : l.linea_id = data.linea_id
LineaDeOtroGrupo(data) ==
    \E l \in lineas : l.linea_id = data.linea_id /\ l.grupo # data.grupo_id

\* Every stored article has a stored line whose group is the article's group.
LineaDelGrupo ==
    \A a \in articulos :
        \E l \in lineas : l.linea_id = a.linea /\ l.grupo = a.grupo

NadaEscrito == UNCHANGED <<grupos, lineas, articulos, lista_precios, ordenes, items>>

InitRefs ==
    /\ grupos = {}
    /\ lineas = {}
    /\ articulos = {}
    /\ lista_precios = {}
    /\ ordenes = {}
    /\ items = {}
    /\ nextArticulo = 1
    /\ nextNro = 1
    /\ nextItem = 1
    /\ reqs = NoReqs
    /\ resp = RespOk("none", 0)

\* The requests for groups and lines 1 and 2 that pass the checks of length
\* and sign.
RequestsRefs ==
    {d \in RequestsBienFormados :
        d.grupo_id # 3 /\ d.linea_id # 3 /\ d.codigo_articulo = "A002"}

NextRefs ==
    \/ \E g \in {1, 2} : GrupoCreate(g)
    \/ \E l \in {1, 2}, g \in {1, 2} : LineaCreate(l, g)
    \/ \E g \in grupos : GrupoDelete(g)
    \/ \E l \in lineas : LineaDelete(l)
    \/ \E a \in articulos : ArticuloDelete(a)
    \/ \E data \in RequestsRefs :
          nextArticulo <= MaxArticulosRefs /\ ArticuloCreateOk(data)
    \/ nextNro <= MaxOrdenesRefs /\ OrdenCreate
    \/ \E o \in ordenes : OrdenDelete(o)
    \/ \E ord \in ordenes, art \in articulos :
          nextItem <= MaxItemsRefs
             /\ ItemCreate(ord.nro_pedido, art.articulo_id, 1, 2, "ACTIVO")
    \/ \E it \in items : ItemDelete(it)

SpecRefs == InitRefs /\ [][NextRefs]_vars

\* Every article references a stored group and a stored line, every order
\* item a stored order and a stored article.
NoDangling ==
    /\ \A a \in articulos :
          a.grupo \in grupos /\ \E l \in lineas : l.linea_id = a.linea
    /\ \A i \in items :
          /\ \E o \in ordenes : o.nro_pedido = i.pedido
          /\ \E a \in articulos : a.articulo_id = i.articulo

\* C9: no creation or deletion leaves a dangling reference; deleting a group
\* or a line that an article references is rejected with the store unchanged;
\* deleting an order deletes the order, the items it owns, and nothing else.
C9_NoDanglingReference ==
    /\ []NoDangling
    /\ [][/\ (resp'.op = "grupo_delete" /\ \E a \in articulos : a.grupo = resp'.id)
                => (~resp'.ok /\ NadaEscrito)
          /\ (resp'.op = "linea_delete" /\ \E a \in articulos : a.linea = resp'.id)
                => (~resp'.ok /\ NadaEscrito)
          /\ resp'.op = "orden_delete"
                => /\ items' = {i \in items : i.pedido # resp'.id}
                   /\ ordenes' = {o \in ordenes : o.nro_pedido # resp'.id}
                   /\ UNCHANGED <<grupos, lineas, articulos, lista_precios>>]_vars

\* C9 witness: the deletion of a line was just rejected, an article
\* references that line and an order item references the article.
C9_Witness ==
    /\ resp.op = "linea_delete"
    /\ ~resp.ok
    /\ \E a \in articulos :
          a.linea = resp.id /\ \E i \in items : i.articulo = a.articulo_id

\* ------------------------------------------- SpecConc: concurrent requests
\* Each request is handled by its own worker; the store is shared and every
\* query or write is one step (autocommit, no transaction.atomic, no
\* select_for_update anywhere in the handlers).

\* The request starts: the item instance exists in memory, either built with
\* the order object (eager) or loaded without it, and save() has run lines
\* 172-180.
ItemSaveBegin(r, o, a, q, p, e, eager) ==
    /\ reqs[r].pc = "idle"
    /\ \E ord \in ordenes : ord.nro_pedido = o
    /\ \E art \in articulos : art.articulo_id = a
    /\ reqs' = [reqs EXCEPT ![r] =
          [@ EXCEPT !.kind = "item", !.pc = "super_save",
                    !.inst = ItemTotals([item_id |-> nextItem, pedido |-> o,
                                         articulo |-> a, cantidad |-> q,
                                         precio_unitario |-> p, total_item |-> 0,
                                         estado |-> e], lista_precios),
                    !.pedido_obj = IF eager THEN OrdenRow(o, ordenes) ELSE NoOrden]]
    /\ nextItem' = nextItem + 1
    /\ UNCHANGED <<grupos, lineas, articulos, lista_precios, ordenes, items,
                   nextArticulo, nextNro, resp>>

\* save(), line 181: super().save() writes the item row.
ItemSuperSave(r) ==
    /\ reqs[r].pc = "super_save"
    /\ items' = SaveItemRow(reqs[r].inst, items)
    /\ reqs' = [reqs EXCEPT ![r].pc = "pedido"]
    /\ UNCHANGED <<grupos, lineas, articulos, lista_precios, ordenes,
                   nextArticulo, nextNro, nextItem, resp>>

\* save(), line 183: self.pedido is the cached order object, fetched now if
\* the instance has none.
ItemGetPedido(r) ==
    /\ reqs[r].pc = "pedido"
    /\ reqs' = [reqs EXCEPT ![r] =
          [@ EXCEPT !.pc = "actualizar_total",
                    !.pedido_obj = IF @ = NoOrden
                                   THEN OrdenRow(reqs[r].inst.pedido, ordenes)
                                   ELSE @]]
    /\ UNCHANGED <<grupos, lineas, articulos, lista_precios, ordenes, items,
                   nextArticulo, nextNro, nextItem, resp>>

\* actualizar_total, lines 147-148: the query over the items and the
\* assignment to importe of the order object.
ItemActualizarTotal(r) ==
    /\ reqs[r].pc = "actualizar_total"
    /\ reqs' = [reqs EXCEPT ![r] =
          [@ EXCEPT !.pc = "save_orden",
                    !.pedido_obj = actualizar_total(@, items)]]
    /\ UNCHANGED <<grupos, lineas, articulos, lista_precios, ordenes, items,
                   nextArticulo, nextNro, nextItem, resp>>

\* actualizar_total, line 149: self.save() writes the order object.
ItemSaveOrden(r) ==
    /\ reqs[r].pc = "save_orden"
    /\ ordenes' = SaveOrden(reqs[r].pedido_obj, ordenes)
    /\ reqs' = [reqs EXCEPT ![r].pc = "done"]
    /\ UNCHANGED <<grupos, lineas, articulos, lista_precios, items,
                   nextArticulo, nextNro, nextItem, resp>>

\* Another request saves the order with a new estado or new notas.
OrdenUpdate(o, est, nota) ==
    /\ o \in ordenes
    /\ <<est, nota>> # <<o.estado, o.notas>>
    /\ ordenes' = SaveOrden([o EXCEPT !.estado = est, !.notas = nota], ordenes)
    /\ UNCHANGED <<grupos, lineas, articulos, lista_precios, items,
                   nextArticulo, nextNro, nextItem, reqs, resp>>

\* is_valid() of an article-creation request, against the store as it is.
ArticuloIsValid(r, data) ==
    /\ reqs[r].pc = "idle"
    /\ reqs' = [reqs EXCEPT ![r] =
          [@ EXCEPT !.kind = "articulo", !.data = data,
                    !.errors = run_validation(data, articulos, grupos, lineas),
                    !.pc = IF run_validation(data, articulos, grupos, lineas) = {}
                           THEN "create" ELSE "done"]]
    /\ UNCHANGED <<grupos, lineas, articulos, lista_precios, ordenes, items,
                   nextArticulo, nextNro, nextItem, resp>>

\* create(), lines 243-261: Articulo.objects.create.
ArticuloCreateArticulo(r) ==
    /\ reqs[r].pc = "create"
    /\ articulos' = articulos \cup {ArticuloRow(reqs[r].data, nextArticulo)}
    /\ nextArticulo' = nextArticulo + 1
    /\ reqs' = [reqs EXCEPT ![r] =
          [@ EXCEPT !.pc = "create_lista", !.articulo_id = nextArticulo]]
    /\ UNCHANGED <<grupos, lineas, lista_precios, ordenes, items, nextNro,
                   nextItem, resp>>

\* create(), lines 264-267: ListaPrecios.objects.create succeeds.
ArticuloCreateLista(r) ==
    /\ reqs[r].pc = "create_lista"
    /\ lista_precios' = lista_precios
          \cup {ListaPreciosRow(reqs[r].data, reqs[r].articulo_id)}
    /\ reqs' = [reqs EXCEPT ![r].pc = "done"]
    /\ UNCHANGED <<grupos, lineas, articulos, ordenes, items, nextArticulo,
                   nextNro, nextItem, resp>>

\* create(), lines 264-267: ListaPrecios.objects.create raises.
ArticuloCreateListaError(r) ==
    /\ reqs[r].pc = "create_lista"
    /\ reqs' = [reqs EXCEPT ![r] =
          [@ EXCEPT !.pc = "done", !.errors = {"IntegrityError"}]]
    /\ UNCHANGED <<grupos, lineas, articulos, lista_precios, ordenes, items,
                   nextArticulo, nextNro, nextItem, resp>>

\* Two groups with one line each, one article with its price list, one
\* order without items.
InitConc ==
    /\ grupos = {1, 2}
    /\ lineas = {[linea_id |-> 1, grupo |-> 1], [linea_id |-> 2, grupo |-> 2]}
    /\ articulos = {[articulo_id |-> 1, codigo_articulo |-> "A001", grupo |-> 1, linea |-> 1]}
    /\ lista_precios = {[articulo |-> 1, precio_1 |-> 1]}
    /\ ordenes = {[nro_pedido |-> 1, importe |-> 0, estado |-> "PENDIENTE",
                   notas |-> "", cliente |-> 1, vendedor |-> 1]}
    /\ items = {}
    /\ nextArticulo = 2
    /\ nextNro = 2
    /\ nextItem = 1
    /\ reqs = NoReqs
    /\ resp = RespOk("none", 0)

RequestsConc ==
    {d \in RequestsBienFormados : d.grupo_id = 1 /\ d.linea_id \in {1, 2}}

NextConc ==
    \/ \E r \in ReqIds, q \in Cantidades, eager \in BOOLEAN :
          ItemSaveBegin(r, 1, 1, q, 2, "ACTIVO", eager)
    \/ \E r \in ReqIds : ItemSuperSave(r)
    \/ \E r \in ReqIds : ItemGetPedido(r)
    \/ \E r \in ReqIds : ItemActualizarTotal(r)
    \/ \E r \in ReqIds : ItemSaveOrden(r)
    \/ \E o \in ordenes, est \in EstadoOrden, nota \in {"", "urgente"} :
          OrdenUpdate(o, est, nota)
    \/ \E r \in ReqIds, data \in RequestsConc : ArticuloIsValid(r, data)
    \/ \E r \in ReqIds : ArticuloCreateArticulo(r)
    \/ \E r \in ReqIds : ArticuloCreateLista(r)
    \/ \E r \in ReqIds : ArticuloCreateListaError(r)

SpecConc == InitConc /\ [][NextConc]_vars

\* C3: once the concurrent item saves on an order have all finished, the
\* order's importe is the sum of total_item of all its items.
C3_NoLostUpdate ==
    (\A r \in ReqIds : reqs[r].pc \in {"idle", "done"})
        => \A ord \in ordenes : ImporteIsSum(ord.nro_pedido)

\* C6: no two stored articles have the same codigo_articulo, and a request
\* that is rejected for its code has stored nothing.
C6_CodigoUnico ==
    /\ \A a, b \in articulos :
          a.codigo_articulo = b.codigo_articulo => a = b
    /\ \A r \in ReqIds :
          "codigo_articulo" \in reqs[r].errors => reqs[r].articulo_id = 0

\* C10: the write of the order at the end of an item save changes, of the
\* stored order, only importe: estado, notas, cliente and vendedor stay as
\* stored, also when another request changed them meanwhile.
C10_OnlyImporteWritten ==
    [][\A r \in ReqIds :
          ItemSaveOrden(r) =>
             \A o \in ordenes :
                \E o2 \in ordenes' : o2 = [o EXCEPT !.importe = o2.importe]]_vars

====
